---- MODULE Spec2Model ----
(***************************************************************************)
(* The benchmark worker of sdnext-benchmark as a state machine.            *)
(*                                                                         *)
(* Two entry points are modelled:                                          *)
(*   program = "queue"  src/src/index.ts     (queue jobs, signed uploads)  *)
(*   program = "local"  src/unnamed/part_000 (static job, local files)     *)
(*                                                                         *)
(* Node runs one callback at a time, so an action is one turn of the event *)
(* loop: a response, timer or signal arrives and the continuation runs up  *)
(* to the next await.  The outcomes of the outside world (HTTP responses,  *)
(* transport errors, the signal) are the inputs, drawn with \E.            *)
(***************************************************************************)
EXTENDS Integers, Sequences, FiniteSets, TLC

VARIABLES
  program,        \* which entry point runs
  serverBatches,  \* the numbers of images the inference server may answer with
  benchmarkSize,  \* parseInt(BENCHMARK_SIZE, 10)
  BATCH_SIZE,     \* the BATCH_SIZE environment variable (documented in README)
  stayAlive,      \* module-level flag cleared by SIGINT
  pc,             \* where main() is suspended
  err,            \* why the process died, "none" while it has not
  attempts,       \* local of the running prober
  failures,       \* local of waitForModelToLoad
  numImages,      \* local of main(): the loop's running image count
  fileIndex,      \* module-level numImages of part_000: next filename index
  job,            \* const job of the current iteration (NoJob for null)
  queueMessage,   \* number of messages in the last queue answer
  request,        \* const request of the current iteration: the txt2img body
  response,       \* images.length of the last txt2img response
  fetched,        \* messages handed out by the queue so far
  submitted,      \* txt2img requests issued by the loop (warm-up excluded)
  received,       \* txt2img responses received by the loop (warm-up excluded)
  inflight,       \* txt2img requests issued and not yet answered
  chains,         \* the persistence chains started so far, one per job
  hist            \* observations of the run (not read by the program)

vars == <<program, serverBatches,
          benchmarkSize, BATCH_SIZE, stayAlive, pc, err, attempts,
          failures, numImages, fileIndex, job, queueMessage, request,
          response, fetched, submitted, received, inflight, chains, hist>>

----------------------------------------------------------------------------
(* Bounds of the model *)

MaxBenchmarkSize == 3
MaxJobs == 2
MaxImages == 2
MaxTargetStatic == 10

(* Program constants *)

maxAttempts == 300
maxAttemptsLocal == 100
maxFailures == 10
StaticBatchSize == 4

NoRequest == [prompt |-> "none", batch_size |-> 0]

\* the value main() sees when getJob() returns null
NoJob == [jobId |-> 0, messageId |-> 0, request |-> NoRequest, uploadUrls |-> 0]
\* src/src/index.ts testJob: no batch_size field (0 stands for absent)
testJob == [prompt |-> "cat", batch_size |-> 0]

\* uploadUrls[i] past the end of the list: undefined
NoUrl == [job |-> 0, slot |-> 0, signed |-> FALSE]

\* queueMessage while the GET of getJob is outstanding or has failed
NoAnswer == -1

\* the prompt a queue job carries
QueuePrompt(k) == "queue" \o ToString(k)

Programs == {"queue", "local"}
BenchmarkSizes == {-1} \cup (1..MaxBenchmarkSize)
\* values of BATCH_SIZE, the documented default StaticBatchSize among them
ConfiguredBatchSizes == 1..StaticBatchSize
\* batch_size of a queue job
BatchSizes == 1..MaxImages

\* The counters of a prober are observed while the prober runs; ProbersDone
\* is what is kept when model-load polling has ended, StartupDone what is
\* kept when the warm-up response has arrived.
InitHist == [statusRequests |-> 0,   \* status requests issued so far
             logRequests |-> 0,      \* log requests issued so far
             sawMarker |-> FALSE,    \* a fetched log line held "Startup time:"
             brokenRun |-> FALSE,    \* a log request succeeded after a failed one
             readinessExhausted |-> FALSE, \* every status attempt errored
             firstStatusOk |-> FALSE, \* the first status request succeeded
             modelExhausted |-> FALSE,     \* every log attempt was used up
             refinerCalls |-> 0,     \* calls of enableRefiner
             refinerFailed |-> FALSE, \* the POST of enableRefiner failed
             interruptedIn |-> "none"]     \* phase of main() at SIGINT

ProbersDone == [InitHist EXCEPT
                  !.refinerFailed = hist.refinerFailed,
                  !.interruptedIn = hist.interruptedIn,
                  !.readinessExhausted = hist.readinessExhausted,
                  !.firstStatusOk = hist.firstStatusOk]

StartupDone == [hist EXCEPT !.readinessExhausted = FALSE,
                            !.firstStatusOk = FALSE]

\* what is the same at every start
Started ==
  /\ stayAlive = TRUE
  /\ pc = IF program = "queue" THEN "getGpuType" ELSE "mkdir"
  /\ err = "none"
  /\ attempts = 0
  /\ failures = 0
  /\ numImages = 0
  /\ fileIndex = 0
  /\ job = NoJob
  /\ queueMessage = NoAnswer
  /\ request = NoRequest
  /\ response = 0
  /\ fetched = 0
  /\ submitted = 0
  /\ received = 0
  /\ inflight = 0
  /\ chains = <<>>
  /\ hist = InitHist

\* either program, a server that answers a request with any number of images
Init ==
  /\ program \in Programs
  /\ serverBatches = 0..MaxImages
  /\ benchmarkSize \in BenchmarkSizes
  /\ BATCH_SIZE \in IF program = "local" THEN ConfiguredBatchSizes ELSE {0}
  /\ Started

\* part_000 (the static job source) with a positive target and a server that
\* answers every request with the same number of images
InitStatic ==
  /\ program = "local"
  /\ \E b \in 1..StaticBatchSize : serverBatches = {b}
  /\ benchmarkSize \in 1..MaxTargetStatic
  /\ BATCH_SIZE = StaticBatchSize
  /\ Started

\* every answer brings the count closer to a positive target: the loop ends
\* by itself
LoopBounded == benchmarkSize > 0 /\ 0 \notin serverBatches

Alive == pc \notin {"fatal", "exited"}

----------------------------------------------------------------------------
(* The variables a turn of main() may write, set together *)
Flow(p, e, a, f, h, r, i, s, j) ==
  /\ pc' = p
  /\ err' = e
  /\ attempts' = a
  /\ failures' = f
  /\ hist' = h
  /\ request' = r
  /\ inflight' = i
  /\ submitted' = s
  /\ job' = j

(* Uncaught error in main(): the promise main() returned rejects and nobody *)
(* handles it.  The image is built for node 18, which ends the process     *)
(* with a non-zero status on an unhandled rejection.                       *)
Throw(reason, h, i) ==
  Flow("fatal", reason, 0, 0, h, request, i, submitted, job)

----------------------------------------------------------------------------
(* Job source *)

\* Faulty variant: the first message is read without the length test
getJobNoLengthTest(msgs, k, b) ==
  [jobId |-> k,
   request |-> [prompt |-> QueuePrompt(k), batch_size |-> b],
   messageId |-> k,
   uploadUrls |-> b]

\* src/src/index.ts getJob: null on an empty answer, else the first message
\* (message k of the queue, whose body asks for b images)
getJob(msgs, k, b) ==
  IF msgs > 0
  THEN [jobId |-> k,
        request |-> [prompt |-> QueuePrompt(k), batch_size |-> b],
        messageId |-> k,
        uploadUrls |-> b]
  ELSE NoJob

\* src/unnamed/part_000 getJob
getJobLocal == [prompt |-> "cat", batch_size |-> StaticBatchSize]

----------------------------------------------------------------------------
(* The benchmarking loop of main() *)

\* Faulty variant: the loop does not read the flag
LoopCondIgnoresInterrupt(n) == benchmarkSize < 0 \/ n < benchmarkSize

\* Faulty variant: the count test off by one
LoopCondOffByOne(n) == stayAlive /\ (benchmarkSize < 0 \/ n <= benchmarkSize)

\* while (stayAlive && (benchmarkSize < 0 || numImages < benchmarkSize))
LoopCond(n) == stayAlive /\ (benchmarkSize < 0 \/ n < benchmarkSize)

\* Faulty variant: the POST is issued and the loop goes on without its answer
SubmitJobNoAwait(j, h, i) ==
  IF program = "queue"
  THEN Flow(IF LoopCond(numImages) THEN "getJob" ELSE "done", err, 0, 0, h,
            j.request, i + 1, submitted + 1, j)
  ELSE Flow("submitJob", err, 0, 0, h, j.request, i + 1, submitted + 1, j)

\* response = await submitJob(request): the POST is issued (i requests were
\* outstanding before it) and main() suspends until it is answered
SubmitJob(j, h, i) ==
  Flow("submitJob", err, 0, 0, h, j.request, i + 1, submitted + 1, j)

\* The loop condition with numImages = n, then the code up to the next
\* suspension: the queue fetch of getJob (queue), or getJob and the txt2img
\* POST of submitJob (local, whose getJob does no I/O); after the loop the
\* statistics are printed and main() returns.
LoopHead(n, h, i) ==
  IF LoopCond(n)
  THEN IF program = "queue"
       THEN Flow("getJob", err, 0, 0, h, NoRequest, i, submitted, NoJob)
       ELSE SubmitJob([NoJob EXCEPT !.request = getJobLocal], h, i)
  ELSE Flow("done", err, 0, 0, h, NoRequest, i, submitted, NoJob)

\* let response = await submitJob(testJob)
WarmUp(h) ==
  Flow("warmup", err, 0, 0, h, testJob, inflight + 1, submitted, NoJob)

----------------------------------------------------------------------------
(* Readiness prober *)

MaxAttempts == IF program = "queue" THEN maxAttempts ELSE maxAttemptsLocal

\* Faulty variant: one attempt too many
ModelLoadHeadOffByOne(a, f, h) ==
  IF stayAlive /\ a <= maxAttempts
  THEN Flow("getSDNextLogs", err, a + 1, f,
            [h EXCEPT !.logRequests = @ + 1],
            request, inflight, submitted, job)
  ELSE Throw("modelTimeout",
             [h EXCEPT !.modelExhausted = (a >= maxAttempts)], inflight)

\* waitForModelToLoad: while (stayAlive && attempts++ < maxAttempts), then
\* the request for the log lines; after the loop the throw
ModelLoadHead(a, f, h) ==
  IF stayAlive /\ a < maxAttempts
  THEN Flow("getSDNextLogs", err, a + 1, f,
            [h EXCEPT !.logRequests = @ + 1],
            request, inflight, submitted, job)
  ELSE Throw("modelTimeout",
             [h EXCEPT !.modelExhausted = (a >= maxAttempts)], inflight)

\* Faulty variant: the one-second sleep is taken after a successful status
\* request too
AfterServerWaitSleeps(h) ==
  Flow("serverSleep", err, attempts, failures, h, request, inflight,
       submitted, job)

\* main() after await waitForServerToStart()
AfterServerWait(h) ==
  IF program = "queue" THEN ModelLoadHead(0, 0, h) ELSE WarmUp(h)

\* waitForServerToStart: while (stayAlive && attempts++ < maxAttempts), then
\* the status request; the function returns when the loop ends
ServerWaitHead(a, h) ==
  IF stayAlive /\ a < MaxAttempts
  THEN Flow("getServerStatus", err, a + 1, 0,
            [h EXCEPT !.statusRequests = @ + 1],
            request, inflight, submitted, job)
  ELSE AfterServerWait([h EXCEPT !.statusRequests = 0,
                                  !.readinessExhausted = (a >= MaxAttempts)])

\* the GET of getJob is issued: its answer is outstanding
FetchIssued ==
  queueMessage' = IF pc' = "getJob" THEN NoAnswer ELSE queueMessage

Quiet == UNCHANGED <<program, serverBatches,
                     benchmarkSize, BATCH_SIZE, stayAlive, numImages,
                     fileIndex, queueMessage, response, fetched, received,
                     chains>>

\* const gpu = await getGpuType()
GpuProbe ==
  /\ pc = "getGpuType"
  /\ \E ok \in BOOLEAN :
       IF ok THEN ServerWaitHead(0, hist) ELSE Throw("gpu", hist, inflight)
  /\ Quiet

\* await fs.mkdir(OUTPUT_DIR, { recursive: true })
Mkdir ==
  /\ pc = "mkdir"
  /\ \E ok \in BOOLEAN :
       IF ok THEN ServerWaitHead(0, hist) ELSE Throw("mkdir", hist, inflight)
  /\ Quiet

\* await getServerStatus() settles: return on success, log and sleep on error
StatusReturns ==
  /\ pc = "getServerStatus"
  /\ \E ok \in BOOLEAN :
       IF ok
       THEN AfterServerWait([hist EXCEPT !.statusRequests = 0,
                                         !.firstStatusOk = (attempts = 1)])
       ELSE Flow("serverSleep", err, attempts, failures, hist, request,
                 inflight, submitted, job)
  /\ Quiet

\* await sleep(1000) in waitForServerToStart
ServerSleepDone ==
  /\ pc = "serverSleep"
  /\ ServerWaitHead(attempts, hist)
  /\ Quiet

\* await enableRefiner()
EnableRefiner(h) ==
  Flow("enableRefiner", err, 0, 0, [h EXCEPT !.refinerCalls = @ + 1],
       request, inflight, submitted, job)

\* logLines.some((line) => line.includes("Startup time:"))
HasMarker(outcome) == outcome = "marker"

\* Faulty variant: the budget test off by one
FailureBudgetOffByOne(f) == f >= maxFailures

\* if (failures > maxFailures) throw e
FailureBudgetExceeded(f) == f > maxFailures

\* await getSDNextLogs() settles
LogsReturn ==
  /\ pc = "getSDNextLogs"
  /\ \E outcome \in {"marker", "lines", "error"} :
       IF outcome = "error"
       THEN \* catch (e): failures++; throw e once over the budget
            IF FailureBudgetExceeded(failures + 1)
            THEN Flow("fatal", "modelFailures", attempts, failures + 1, hist,
                      request, inflight, submitted, job)
            ELSE Flow("modelSleep", err, attempts, failures + 1, hist,
                      request, inflight, submitted, job)
       ELSE IF HasMarker(outcome)
            THEN EnableRefiner([ProbersDone EXCEPT
                                  !.sawMarker = (outcome = "marker")])
            ELSE Flow("modelSleep", err, attempts, failures,
                      [hist EXCEPT !.brokenRun = @ \/ failures > 0],
                      request, inflight, submitted, job)
  /\ Quiet

\* await sleep(1000) in waitForModelToLoad
ModelSleepDone ==
  /\ pc = "modelSleep"
  /\ ModelLoadHead(attempts, failures, hist)
  /\ Quiet

\* Faulty variant: a failed refiner request is ignored (enableRefiner() in a
\* try/catch, or not awaited)
RefinerFailedIgnored(h) == WarmUp(h)

\* await enableRefiner() rejects: the error leaves main()
RefinerFailed(h) == Throw("refiner", h, inflight)

\* await enableRefiner() settles
RefinerReturns ==
  /\ pc = "enableRefiner"
  /\ \E ok \in BOOLEAN :
       IF ok THEN WarmUp(hist)
       ELSE RefinerFailed([hist EXCEPT !.refinerFailed = TRUE])
  /\ Quiet

\* the warm-up response arrives: let numImages = 0 and the first loop test
WarmUpReturns ==
  /\ pc = "warmup"
  /\ \E ok \in BOOLEAN :
       IF ok
       THEN /\ \E n \in serverBatches : response' = n
            /\ LoopHead(0, StartupDone, inflight - 1)
       ELSE /\ response' = response
            /\ Throw("warmup", hist, inflight - 1)
  /\ numImages' = 0
  /\ FetchIssued
  /\ UNCHANGED <<program, serverBatches,
                 benchmarkSize, BATCH_SIZE, stayAlive, fileIndex,
                 fetched, received, chains>>

----------------------------------------------------------------------------
(* SIGINT handler *)

\* the part of main() that is suspended
Phase ==
  CASE pc \in {"getServerStatus", "serverSleep", "getSDNextLogs", "modelSleep"}
         -> "polling"
    [] pc \in {"getJob", "sleep", "submitJob"} -> "benchmarking"
    [] OTHER -> "other"

\* process.on("SIGINT", () => { stayAlive = false; })
Sigint ==
  /\ Alive
  /\ stayAlive
  /\ stayAlive' = FALSE
  /\ hist' = [hist EXCEPT !.interruptedIn = Phase]
  /\ UNCHANGED <<program, serverBatches,
                 benchmarkSize, BATCH_SIZE, pc, err, attempts,
                 failures, numImages, fileIndex, job, queueMessage, request,
                 response, fetched, submitted, received, inflight, chains>>

----------------------------------------------------------------------------
(* Result sink: one persistence chain per answered job *)

Range(f) == {f[x] : x \in DOMAIN f}

\* uploadUrls[x - 1] of job j: a signed URL (the path and a query string)
UploadUrl(j, x) ==
  IF x <= j.uploadUrls
  THEN [job |-> j.jobId, slot |-> x, signed |-> TRUE]
  ELSE NoUrl

\* OUTPUT_DIR of part_000 (its default)
OUTPUT_DIR == "images"

\* path.join(OUTPUT_DIR, `image-${i}.jpg`)
Filename(i) == OUTPUT_DIR \o "/image-" \o ToString(i) \o ".jpg"

\* url.split("?")[0]: the URL without its query string
DownloadUrl(u) == [u EXCEPT !.signed = FALSE]

\* no result record sent yet
NoReport == [id |-> 0, prompt |-> "none", inference_time |-> 0,
             output_urls |-> <<>>]

\* the argument of recordResult, from the constants of the iteration that
\* the callbacks closed over
ResultOf(ch) ==
  [id |-> ch.jobId,
   prompt |-> ch.prompt,
   inference_time |-> ch.elapsed,
   output_urls |-> [x \in DOMAIN ch.urls |-> DownloadUrl(ch.urls[x])]]

\* Faulty variant: recordResult is not awaited, the DELETE goes out with the report
AfterUploadsNoAwait(ch) ==
  IF program = "queue"
  THEN [ch EXCEPT !.report = "inflight", !.reported = ResultOf(ch),
                  !.delete = "inflight", !.deleted = ch.messageId]
  ELSE ch

\* Faulty variant: the callback reads the job of the iteration that runs when
\* the uploads are done (job, request and jobElapsed declared outside the loop)
AfterUploadsSharedJob(ch) ==
  IF program = "queue"
  THEN [ch EXCEPT !.report = "inflight",
                  !.reported = [ResultOf(ch) EXCEPT
                                  !.id = job.jobId,
                                  !.prompt = job.request.prompt,
                                  !.inference_time = submitted]]
  ELSE ch

\* .then(async (downloadUrls) => { await recordResult(...) }) of index.ts;
\* .then((filenames) => console.log(filenames)) of part_000
AfterUploads(ch) ==
  IF program = "queue"
  THEN [ch EXCEPT !.report = "inflight", !.reported = ResultOf(ch)]
  ELSE ch

\* Faulty variant: the loop awaits the chain, which is complete when the loop
\* goes on
NewChainAwaited(j, n, base) ==
  [jobId |-> j.jobId,
   messageId |-> j.messageId,
   prompt |-> j.request.prompt,
   elapsed |-> submitted,
   n |-> n,
   images |-> [x \in 1..n |-> [response |-> submitted, index |-> x]],
   urls |-> [x \in 1..n |-> IF program = "queue" THEN UploadUrl(j, x)
                                                 ELSE Filename(base + x - 1)],
   uploads |-> [x \in 1..n |-> "ok"],
   refused |-> FALSE,
   report |-> IF program = "queue" THEN "ok" ELSE "none",
   reported |-> NoReport,
   delete |-> IF program = "queue" THEN "ok" ELSE "none",
   deleted |-> j.messageId]

\* Faulty variant: uploadImage of part_000 reads the counter for the filename
\* before the write and increments it after the write (every upload of a
\* batch starts before any write of the batch is done)
NewChainIndexAfterWrite(j, n, base) ==
  LET ch == [jobId |-> j.jobId,
             messageId |-> j.messageId,
             prompt |-> j.request.prompt,
             elapsed |-> submitted,
             n |-> n,
             images |-> [x \in 1..n |-> [response |-> submitted, index |-> x]],
             urls |-> [x \in 1..n |-> IF program = "queue"
                                      THEN UploadUrl(j, x)
                                      ELSE Filename(base)],
             uploads |-> [x \in 1..n |-> "inflight"],
             refused |-> FALSE,
             report |-> "none",
             reported |-> NoReport,
             delete |-> "none",
             deleted |-> 0]
  IN IF n = 0 THEN AfterUploads(ch) ELSE ch

\* Promise.all(response.images.map(...)): every upload starts at once, and
\* the callbacks close over the constants of the iteration (jobId, messageId,
\* request, jobElapsed: the time of submission number submitted).
\* queue: image i of the response goes to uploadUrls[i] of the job;
\* local: uploadImage takes the next filename index before it suspends.
\* Promise.all of no promise is fulfilled at once: the first callback runs.
NewChain(j, n, base) ==
  LET ch == [jobId |-> j.jobId,
             messageId |-> j.messageId,
             prompt |-> j.request.prompt,
             elapsed |-> submitted,
             n |-> n,
             images |-> [x \in 1..n |-> [response |-> submitted, index |-> x]],
             urls |-> [x \in 1..n |-> IF program = "queue"
                                      THEN UploadUrl(j, x)
                                      ELSE Filename(base + x - 1)],
             uploads |-> [x \in 1..n |-> "inflight"],
             \* the storage answered a PUT of the job with an error status
             refused |-> FALSE,
             report |-> "none",
             reported |-> NoReport,
             delete |-> "none",
             deleted |-> 0]
  IN IF n = 0 THEN AfterUploads(ch) ELSE ch

\* Faulty variant: the uploads of part_000 increment the counter of the loop too
\* (main() without its own let numImages)
CountSharedWithUploads(cnt, n) ==
  IF program = "local" THEN cnt + n + n ELSE cnt + n

\* Faulty variant: the last batch is cut down to the target
CountTruncated(cnt, n) ==
  IF benchmarkSize > 0 /\ cnt + n > benchmarkSize THEN benchmarkSize ELSE cnt + n

\* numImages += response.images.length
CountAfterBatch(cnt, n) == cnt + n

\* module-level numImages++ of part_000, once per image of the batch
FileIndexAfterBatch(idx, n) == IF program = "local" THEN idx + n ELSE idx

\* the queue answers the GET of getJob
GetJobReturns ==
  /\ pc = "getJob"
  /\ \E ok \in BOOLEAN :
       IF ok
       THEN \E msgs \in 0..(IF fetched < MaxJobs THEN 1 ELSE 0), b \in BatchSizes :
              LET j == getJob(msgs, fetched + 1, b) IN
              /\ queueMessage' = msgs
              /\ fetched' = fetched + msgs
              /\ IF j = NoJob
                 THEN \* console.log("No jobs available. Waiting..."); sleep
                      Flow("sleep", err, 0, 0, hist, request, inflight,
                           submitted, j)
                 ELSE SubmitJob(j, hist, inflight)
       ELSE /\ Throw("getJob", hist, inflight)
            /\ UNCHANGED <<queueMessage, fetched>>
  /\ UNCHANGED <<program, serverBatches,
                 benchmarkSize, BATCH_SIZE, stayAlive, numImages,
                 fileIndex, response, received, chains>>

\* await sleep(1000); continue
SleepDone ==
  /\ pc = "sleep"
  /\ LoopHead(numImages, hist, inflight)
  /\ FetchIssued
  /\ UNCHANGED <<program, serverBatches,
                 benchmarkSize, BATCH_SIZE, stayAlive, numImages,
                 fileIndex, response, fetched, received, chains>>

\* the inference server answers the POST of submitJob in the loop with n
\* images; ~ok: the POST fails or its answer cannot be read, main() throws
SubmitJobReturns ==
  /\ pc = "submitJob"
  /\ received < MaxJobs \/ LoopBounded
  /\ \E ok \in BOOLEAN :
       IF ok
       THEN \E n \in serverBatches :
              /\ response' = n
              /\ received' = received + 1
              /\ numImages' = CountAfterBatch(numImages, n)
              /\ fileIndex' = FileIndexAfterBatch(fileIndex, n)
              /\ chains' = Append(chains, NewChain(job, n, fileIndex))
              /\ LoopHead(numImages', hist, inflight - 1)
       ELSE /\ Throw("submitJob", hist, inflight - 1)
            /\ UNCHANGED <<response, received, numImages, fileIndex, chains>>
  /\ FetchIssued
  /\ UNCHANGED <<program, serverBatches,
                 benchmarkSize, BATCH_SIZE, stayAlive, fetched>>

\* what a chain action leaves alone
ChainQuiet == UNCHANGED <<program, serverBatches,
                          benchmarkSize, BATCH_SIZE, stayAlive,
                          attempts, failures, numImages, fileIndex, job,
                          queueMessage, request, response, fetched, submitted,
                          received, inflight, hist>>

\* A promise of a chain rejects and no handler is attached to it
UnhandledRejection ==
  /\ pc' = "fatal"
  /\ err' = "unhandledRejection"

\* How a request of a chain can end.  fetch() rejects only when the request
\* fails at transport level ("error"); an answer with an error status
\* ("refused") fulfils it like any other answer, and no caller looks at the
\* status: a chain goes on after "refused" as after "ok", and only its field
\* refused keeps what the storage said.  writeFile of part_000 either
\* succeeds or rejects.
Outcomes == IF program = "queue" THEN {"ok", "refused", "error"}
                                 ELSE {"ok", "error"}

\* the promise of the request is fulfilled
Fulfilled(outcome) == outcome \in {"ok", "refused"}

\* the PUT (queue) or writeFile (local) of image x of chain c settles
UploadReturns(c, x) ==
  /\ Alive
  /\ chains[c].uploads[x] = "inflight"
  /\ \E outcome \in Outcomes :
       IF Fulfilled(outcome) /\ (program = "local" \/ chains[c].urls[x] # NoUrl)
       THEN LET ch == [chains[c] EXCEPT
                         !.uploads[x] = "ok",
                         !.refused = @ \/ outcome = "refused"] IN
            /\ chains' = [chains EXCEPT ![c] =
                            IF Range(ch.uploads) = {"ok"}
                            THEN AfterUploads(ch) ELSE ch]
            /\ UNCHANGED <<pc, err>>
       ELSE /\ chains' = [chains EXCEPT ![c].uploads[x] = "error"]
            /\ UnhandledRejection
  /\ ChainQuiet

\* .then((downloadUrls) => { markJobComplete(messageId); prettyPrint(...) })
AfterReport(ch) ==
  [ch EXCEPT !.delete = "inflight", !.deleted = ch.messageId]

\* Faulty variant: the DELETE is issued although recordResult rejected
\* (markJobComplete in a finally)
AfterReportFailedDeletes(ch) ==
  [ch EXCEPT !.delete = "inflight", !.deleted = ch.messageId]

\* await recordResult(...) rejects: the async callback rejects, the second
\* then is skipped
AfterReportFailed(ch) == ch

\* the POST of recordResult of chain c settles
ReportReturns(c) ==
  /\ Alive
  /\ chains[c].report = "inflight"
  /\ \E outcome \in Outcomes :
       IF Fulfilled(outcome)
       THEN /\ chains' = [chains EXCEPT ![c] =
                            AfterReport([chains[c] EXCEPT !.report = "ok"])]
            /\ UNCHANGED <<pc, err>>
       ELSE /\ chains' = [chains EXCEPT ![c] =
                            AfterReportFailed([chains[c] EXCEPT !.report = "error"])]
            /\ UnhandledRejection
  /\ ChainQuiet

\* the DELETE of markJobComplete of chain c settles
DeleteReturns(c) ==
  /\ Alive
  /\ chains[c].delete = "inflight"
  /\ \E ok \in BOOLEAN :
       IF ok
       THEN /\ chains' = [chains EXCEPT ![c].delete = "ok"]
            /\ UNCHANGED <<pc, err>>
       ELSE /\ chains' = [chains EXCEPT ![c].delete = "error"]
            /\ UnhandledRejection
  /\ ChainQuiet

\* a chain with a request still outstanding
Pending(ch) ==
  \/ "inflight" \in Range(ch.uploads)
  \/ ch.report = "inflight"
  \/ ch.delete = "inflight"

\* main() has returned and nothing is outstanding: node exits with status 0
Exit ==
  /\ pc = "done"
  /\ \A c \in DOMAIN chains : ~Pending(chains[c])
  /\ pc' = "exited"
  /\ UNCHANGED <<program, serverBatches,
                 benchmarkSize, BATCH_SIZE, stayAlive, err,
                 attempts, failures, numImages, fileIndex, job, queueMessage,
                 request, response, fetched, submitted, received, inflight,
                 chains, hist>>

Startup ==
  \/ GpuProbe
  \/ Mkdir
  \/ StatusReturns
  \/ ServerSleepDone
  \/ LogsReturn
  \/ ModelSleepDone
  \/ RefinerReturns
  \/ WarmUpReturns

Benchmarking ==
  \/ GetJobReturns
  \/ SleepDone
  \/ SubmitJobReturns

Persistence ==
  \/ \E c \in DOMAIN chains : \E x \in DOMAIN chains[c].uploads :
       UploadReturns(c, x)
  \/ \E c \in DOMAIN chains : ReportReturns(c)
  \/ \E c \in DOMAIN chains : DeleteReturns(c)

Next ==
  \/ Startup
  \/ Benchmarking
  \/ Persistence
  \/ Sigint
  \/ Exit

Spec == Init /\ [][Next]_vars

\* part_000 alone: the steps of index.ts that part_000 does not have (GPU
\* probe, model-load polling, refiner, queue fetch, report, delete) left out
NextStatic ==
  \/ Mkdir
  \/ StatusReturns
  \/ ServerSleepDone
  \/ WarmUpReturns
  \/ SubmitJobReturns
  \/ \E c \in DOMAIN chains : \E x \in DOMAIN chains[c].uploads :
       UploadReturns(c, x)
  \/ Sigint
  \/ Exit

SpecStatic == InitStatic /\ [][NextStatic]_vars

\* Every outstanding request of the loop is answered (or fails) and every
\* timer fires: the event loop runs the continuation of main()
SpecFair ==
  /\ Spec
  /\ WF_vars(GetJobReturns)
  /\ WF_vars(SleepDone)
  /\ WF_vars(SubmitJobReturns)

----------------------------------------------------------------------------
(* Properties *)

RECURSIVE SumImages(_)
SumImages(cs) == IF cs = <<>> THEN 0 ELSE cs[1].n + SumImages(Tail(cs))

\* every upload of the chain has completed (its promise is fulfilled)
AllUploaded(ch) == \A x \in DOMAIN ch.uploads : ch.uploads[x] = "ok"

\* every image of the chain is in the storage
AllStored(ch) == AllUploaded(ch) /\ ~ch.refused

\* C1: with a positive target K no job fetch and no submission is outstanding
\* (none was started) once the running count is >= K; with a negative target
\* the loop has ended only if the interrupt flag is set.
C1_LoopStopsAtTarget ==
  /\ (benchmarkSize > 0 /\ pc \in {"getJob", "sleep", "submitJob"})
       => numImages < benchmarkSize
  /\ (benchmarkSize < 0 /\ pc \in {"done", "exited"}) => ~stayAlive

C1_Witness ==
  /\ benchmarkSize > 0
  /\ pc = "done"
  /\ stayAlive
  /\ received = 2
  /\ numImages >= benchmarkSize

\* C2: in every chain of a queue job the report is sent only when every image
\* of the job has been uploaded, and the DELETE is issued only when the report
\* has been answered (so never before every image has been uploaded).
C2_UploadReportDelete ==
  program = "queue" =>
    \A c \in DOMAIN chains :
      /\ chains[c].report # "none" => AllUploaded(chains[c])
      /\ chains[c].delete # "none" =>
           chains[c].report = "ok" /\ AllUploaded(chains[c])

C2_Witness ==
  /\ program = "queue"
  /\ \E c \in DOMAIN chains : chains[c].delete = "ok" /\ chains[c].n = 2

\* C3: when the queue answers the fetch with zero messages, getJob gives null
\* and main() sleeps: no submission is issued, no error is raised, the count
\* is unchanged; when the sleep ends the loop fetches again (or ends, if the
\* interrupt flag was set meanwhile), still without a submission.
C3_EmptyQueueSleeps ==
  [][/\ (queueMessage = NoAnswer /\ queueMessage' = 0) =>
          /\ job' = NoJob
          /\ pc' = "sleep"
          /\ err' = "none"
          /\ numImages' = numImages
          /\ submitted' = submitted
          /\ inflight' = inflight
     /\ (pc = "sleep" /\ pc' # "sleep" /\ err' # "unhandledRejection") =>
          /\ pc' = IF stayAlive THEN "getJob" ELSE "done"
          /\ err' = "none"
          /\ numImages' = numImages
          /\ submitted' = submitted
          /\ inflight' = inflight]_vars

C3_Witness ==
  /\ pc = "sleep"
  /\ queueMessage = 0
  /\ job = NoJob
  /\ received = 1

\* C4: the running image counter of the loop equals the sum of the image
\* counts of the batches received so far, whatever the chains have done.
C4_CounterIsSum == numImages = SumImages(chains)

C4_Witness ==
  /\ program = "local"
  /\ received = 2
  /\ numImages = 3
  /\ fileIndex = 3
  /\ \E c \in DOMAIN chains : "inflight" \in Range(chains[c].uploads)
  /\ \E c \in DOMAIN chains : "ok" \in Range(chains[c].uploads)

\* C5: with the static job source and configured batch size BATCH_SIZE, every
\* request submitted by the loop has batch_size = BATCH_SIZE and the template
\* prompt.
C5_StaticBatchSize ==
  (program = "local" /\ pc = "submitJob") =>
    request.batch_size = BATCH_SIZE /\ request.prompt = testJob.prompt

\* C6: after a readiness budget used up without a successful status request
\* the worker does not go on: the process has died.
C6_ReadinessTimeoutFatal ==
  (program = "queue" /\ hist.readinessExhausted) => pc = "fatal"

\* C7 as stated: the failure budget kills the prober only after more than
\* maxFailures consecutive failed log requests.
C7_ConsecutiveFailures ==
  err = "modelFailures" => ~hist.brokenRun

\* C7 as amended: the failed log requests are counted over the whole polling
\* (a success does not reset the count); the prober dies of them exactly when
\* the count passes maxFailures, and each failure within the budget is
\* followed by the one-second sleep and then the next loop test.
C7_TotalFailures ==
  /\ [](/\ err = "modelFailures" => failures = maxFailures + 1
        /\ pc \in {"getSDNextLogs", "modelSleep"} => failures <= maxFailures)
  /\ [][/\ (pc = "getSDNextLogs" /\ failures' = failures + 1
                                 /\ failures' <= maxFailures)
             => pc' = "modelSleep"
        /\ (pc = "modelSleep" /\ pc' # "modelSleep")
             => /\ failures' = failures \/ pc' = "fatal"
                /\ pc' = "getSDNextLogs" \/ err' = "modelTimeout"]_vars

C7_Witness ==
  /\ err = "modelFailures"
  /\ hist.brokenRun
  /\ failures = maxFailures + 1

PastModelLoad ==
  /\ program = "queue"
  /\ \/ pc \in {"enableRefiner", "warmup", "getJob", "sleep", "submitJob",
                "done", "exited"}
     \/ err \in {"refiner", "warmup", "getJob", "submitJob",
                 "unhandledRejection"}

\* C8: the model-load prober issues at most maxAttempts log requests; main()
\* gets past it only if a fetched log line held the marker; with the attempts
\* used up and no marker seen it has thrown.
C8_ModelLoadBudget ==
  /\ hist.logRequests <= maxAttempts
  /\ PastModelLoad => hist.sawMarker
  /\ hist.modelExhausted => pc = "fatal" /\ err = "modelTimeout"

C8_Witness ==
  /\ hist.modelExhausted
  /\ hist.logRequests = maxAttempts
  /\ pc = "fatal"
  /\ stayAlive

\* C9: at most one txt2img request is outstanding at any time, and a
\* submission is issued only when every earlier one has been answered.
C9_SequentialSubmissions ==
  /\ inflight \in {0, 1}
  /\ submitted <= received + 1
  /\ pc \in {"getJob", "sleep"} => inflight = 0 /\ submitted = received

C9_Witness ==
  /\ pc = "submitJob"
  /\ inflight = 1
  /\ submitted = 2
  /\ \E c \in DOMAIN chains : Pending(chains[c])

StartupFatalCondition ==
  \/ err \in {"gpu", "modelFailures"}
  \/ hist.readinessExhausted
  \/ hist.modelExhausted

RequestFailed ==
  err \in {"mkdir", "refiner", "warmup", "getJob", "submitJob",
           "unhandledRejection"}

InterruptedWhilePolling == hist.interruptedIn = "polling"

InterruptedWhileBenchmarking == hist.interruptedIn = "benchmarking"

\* C10: after an interrupt that arrived during readiness polling, model-load
\* polling or benchmarking, with no startup-fatal condition (and no failed
\* request), the process does not end by an uncaught error.
C10_InterruptEndsNormally ==
  ( /\ InterruptedWhilePolling \/ InterruptedWhileBenchmarking
    /\ ~StartupFatalCondition
    /\ ~RequestFailed ) => pc # "fatal"

\* C11: a queue job one of whose uploads failed (the PUT failed at transport
\* level, or the storage answered it with an error status) never has its
\* DELETE issued.
C11_DeleteOnlyAfterStored ==
  program = "queue" =>
    \A c \in DOMAIN chains :
      chains[c].delete # "none" => AllStored(chains[c])

\* the benchmarking loop of main is running (a fetch, a sleep or a submission
\* is outstanding)
InLoop == pc \in {"getJob", "sleep", "submitJob"}

\* the report of chain c fails in this step
ReportFails(c) ==
  /\ c \in DOMAIN chains
  /\ chains[c].report = "inflight"
  /\ chains'[c].report = "error"

\* C12: a report (recordResult) that fails while the benchmarking loop runs
\* does not stop the loop: the loop stays where it is, with its outstanding
\* request.
C12_ReportFailureNotFatal ==
  [][\A c \in 1..MaxJobs : (InLoop /\ ReportFails(c)) => pc' = pc]_vars

\* ceil(k / b) for positive k and b
CeilDiv(k, b) == (k + b - 1) \div b

\* the number of images of every response, when the server has only one
TheBatch == CHOOSE b \in serverBatches : TRUE

\* C13: static job source, positive target K, every submission answered with
\* exactly B images: the loop never issues more than ceil(K/B) submissions,
\* and when it has ended without an interrupt it has issued exactly
\* ceil(K/B) of them and counted B*ceil(K/B) images (no truncation).
C13_CeilSubmissions ==
  (program = "local" /\ benchmarkSize > 0 /\ serverBatches = {TheBatch}) =>
    /\ submitted <= CeilDiv(benchmarkSize, TheBatch)
    /\ (stayAlive /\ pc \in {"done", "exited"}) =>
         /\ submitted = CeilDiv(benchmarkSize, TheBatch)
         /\ received = submitted
         /\ numImages = TheBatch * CeilDiv(benchmarkSize, TheBatch)

\* batch 4, target 10: the loop has ended after 3 submissions with a count of 12
C13_Witness ==
  /\ program = "local" /\ serverBatches = {StaticBatchSize}
  /\ benchmarkSize = 10
  /\ stayAlive /\ pc = "done"
  /\ submitted = 3 /\ numImages = 12

\* C14: when the first status request succeeds, the same turn goes on to what
\* follows the readiness prober, which in index.ts is the first log request
\* of model-load polling (the throw of the prober if SIGINT has arrived); no
\* sleep and no status request comes after it.
C14_FirstSuccessNoSleep ==
  /\ [](hist.firstStatusOk =>
          /\ pc \notin {"getServerStatus", "serverSleep"}
          /\ hist.statusRequests = 0)
  /\ [][(~hist.firstStatusOk /\ hist'.firstStatusOk) =>
          /\ pc = "getServerStatus" /\ attempts = 1
          /\ program = "queue" =>
               IF stayAlive
               THEN pc' = "getSDNextLogs" /\ hist'.logRequests = 1
               ELSE pc' = "fatal" /\ err' = "modelTimeout"
          /\ program = "local" => pc' = "warmup"]_vars

C14_Witness ==
  /\ program = "queue"
  /\ hist.firstStatusOk
  /\ pc = "getSDNextLogs"
  /\ hist.logRequests = 1
  /\ attempts = 1

\* main() has not received the warm-up response yet
BeforeWarmUpResponse ==
  pc \in {"getGpuType", "mkdir", "getServerStatus", "serverSleep",
          "getSDNextLogs", "modelSleep", "enableRefiner", "warmup"}

\* C15: enableRefiner is issued at most once and only after both probers
\* succeeded (a status request answered, the marker seen); before the warm-up
\* response no job is fetched and no benchmark submission issued; the warm-up
\* response is not counted and starts no persistence chain.
C15_StartupOrder ==
  /\ hist.refinerCalls <= 1
  /\ pc \in {"enableRefiner", "warmup"} /\ program = "queue" =>
       /\ hist.refinerCalls = 1
       /\ hist.sawMarker
       /\ ~hist.readinessExhausted
  /\ BeforeWarmUpResponse =>
       /\ fetched = 0 /\ submitted = 0 /\ received = 0
       /\ numImages = 0 /\ chains = <<>>
       /\ inflight = (IF pc = "warmup" THEN 1 ELSE 0)
  /\ received = 0 => numImages = 0 /\ chains = <<>>

\* C16: a failed refiner request does not stop the worker (the process does
\* not die of it; the warm-up and the loop follow).
C16_RefinerBestEffort == hist.refinerFailed => pc # "fatal"

\* C16 as amended: a failed refiner request is fatal: the process dies of it
\* at once, the request is not issued again, and no warm-up submission, job
\* fetch or benchmark submission follows.
C16_RefinerFailureFatal ==
  hist.refinerFailed =>
    /\ pc = "fatal" /\ err = "refiner"
    /\ hist.refinerCalls = 1
    /\ request = NoRequest /\ inflight = 0
    /\ fetched = 0 /\ submitted = 0 /\ chains = <<>>

C16_Witness ==
  /\ hist.refinerFailed
  /\ pc = "fatal"
  /\ hist.sawMarker

\* the model still answers the outstanding submission
WithinBounds == received < MaxJobs \/ LoopBounded

\* C17: SIGINT only clears the flag (nothing outstanding is touched); a job
\* whose fetch returns after the interrupt is still submitted, and a response
\* that arrives after it is still counted and handed to a chain; a fetch (for
\* part_000 a submission) is only started by a loop test that finds the flag
\* set; and once the flag is cleared the loop is left, provided the
\* outstanding request returns.
C17_CooperativeCancel ==
  /\ [][/\ (stayAlive /\ ~stayAlive') =>
             /\ pc' = pc /\ inflight' = inflight /\ job' = job
             /\ request' = request /\ chains' = chains
             /\ numImages' = numImages /\ queueMessage' = queueMessage
        /\ (~stayAlive /\ pc = "getJob" /\ fetched' = fetched + 1) =>
             /\ pc' = "submitJob" /\ submitted' = submitted + 1
             /\ job'.jobId = fetched'
        /\ (~stayAlive /\ pc = "submitJob" /\ received' = received + 1) =>
             /\ numImages' = numImages + response'
             /\ chains' = Append(chains, NewChain(job, response', fileIndex))
             /\ pc' = "done"
        /\ (pc # "getJob" /\ pc' = "getJob") => stayAlive
        /\ (InLoop /\ submitted' = submitted + 1 /\ program = "local")
             => stayAlive]_vars
  /\ (~stayAlive /\ InLoop /\ WithinBounds) ~> ~InLoop

\* an endless run was interrupted while the fetch or the submission of its
\* first job was outstanding (no sleep since the fetch, no other job); the
\* job has been counted and handed to a chain, and the loop has ended
C17_Witness ==
  /\ program = "queue" /\ benchmarkSize < 0
  /\ ~stayAlive
  /\ hist.interruptedIn = "benchmarking"
  /\ queueMessage = 1 /\ fetched = 1
  /\ pc = "done"
  /\ Len(chains) = 1
  /\ chains[1].n > 0
  /\ numImages = chains[1].n

\* C18: the main flow does not wait for a chain: the turn that handles a
\* response starts the chain of the job and goes straight on to the next loop
\* test (next fetch or submission, or the final statistics) with every upload
\* of that chain still outstanding.
C18_NoBarrier ==
  [][(received' = received + 1) =>
       /\ pc' \in {"getJob", "submitJob", "done"}
       /\ Len(chains') = Len(chains) + 1
       /\ \A x \in 1..response' : chains'[Len(chains')].uploads[x] = "inflight"
       /\ response' > 0 => Pending(chains'[Len(chains')])]_vars

\* the loop has ended by the target count and the statistics are printed
\* while requests of two jobs are outstanding
C18_Witness ==
  /\ pc = "done"
  /\ stayAlive
  /\ Len(chains) = 2
  /\ Pending(chains[1])
  /\ Pending(chains[2])

\* C19: the DELETE of a message is issued only when the report of its job
\* has completed without error; a report that failed leaves the message
\* without DELETE; and a message gets at most one DELETE (one chain per
\* fetched message, and the DELETE of a chain is issued once).
C19_DeleteAfterReport ==
  /\ [](program = "queue" =>
          /\ Len(chains) <= fetched
          /\ \A c \in DOMAIN chains :
               /\ chains[c].messageId = c
               /\ chains[c].delete # "none" => chains[c].report = "ok"
               /\ chains[c].report \in {"none", "inflight", "error"} =>
                    chains[c].delete = "none")
  /\ [][\A c \in DOMAIN chains :
          /\ chains[c].delete # "none" => chains'[c].delete # "none"
          /\ chains[c].delete \in {"ok", "error"} =>
               chains'[c].delete = chains[c].delete]_vars

\* the images of a job are uploaded, its report has failed, and no DELETE
\* has been issued for its message
C19_Witness ==
  /\ program = "queue"
  /\ \E c \in DOMAIN chains :
       /\ chains[c].n > 0
       /\ AllUploaded(chains[c])
       /\ chains[c].report = "error"
       /\ chains[c].delete = "none"

\* C20: every chain works on its own job: chain c, started for the c-th
\* message and submission, uploads image x of response c to upload URL x of
\* job c; its result record carries the id, the prompt, the inference time
\* and the output URLs of job c; its DELETE names message c; whatever the
\* loop and the other chains have done meanwhile.
C20_ChainIsolation ==
  program = "queue" =>
    \A c \in DOMAIN chains :
      LET ch == chains[c] IN
      /\ \A x \in 1..ch.n :
           /\ ch.images[x] = [response |-> c, index |-> x]
           /\ ch.urls[x] \in {NoUrl, [job |-> c, slot |-> x, signed |-> TRUE]}
      /\ ch.report # "none" =>
           ch.reported =
             [id |-> c,
              prompt |-> QueuePrompt(c),
              inference_time |-> c,
              output_urls |->
                [x \in 1..ch.n |-> [job |-> c, slot |-> x, signed |-> FALSE]]]
      /\ ch.delete # "none" => ch.deleted = c

\* the uploads of job 1 completed while job 2 was being submitted: its report
\* is outstanding and carries the data of job 1
C20_Witness ==
  /\ program = "queue"
  /\ pc = "submitJob" /\ job.jobId = 2
  /\ Len(chains) = 1
  /\ chains[1].n = 2
  /\ chains[1].report = "inflight"
  /\ chains[1].reported.id = 1

\* the files the upload calls of the run were given, in the order of the calls
RECURSIVE FilesOf(_)
FilesOf(cs) ==
  IF cs = <<>> THEN <<>>
  ELSE [x \in 1..cs[1].n |-> cs[1].urls[x]] \o FilesOf(Tail(cs))

\* C21: in part_000 the files given to the upload calls are pairwise
\* distinct, and after n upload calls they are image-0.jpg .. image-(n-1).jpg
\* in the order of the calls (batch after batch, image after image), whatever
\* writes are still outstanding; the counter is n.
C21_DistinctFilenames ==
  program = "local" =>
    LET files == FilesOf(chains) IN
    /\ Len(files) = fileIndex
    /\ \A i \in 1..Len(files) : files[i] = Filename(i - 1)
    /\ \A i, k \in 1..Len(files) : files[i] = files[k] => i = k

\* two batches of two images, every write still outstanding
C21_Witness ==
  /\ program = "local"
  /\ Len(chains) = 2
  /\ chains[1].n = 2 /\ chains[2].n = 2
  /\ Range(chains[1].uploads) = {"inflight"}
  /\ Range(chains[2].uploads) = {"inflight"}
  /\ chains[2].urls[2] = Filename(3)
  /\ fileIndex = 4

====
